---- MODULE Spec2Model ----
(***************************************************************************)
(* State-machine model of simple_artifactory_tester.py: main reads the     *)
(* environment, SimpleArtifactoryTester lists the images and tags of an    *)
(* Artifactory Docker repository and, for every (image, tag) pair, writes  *)
(* a Dockerfile, builds it and runs it with the docker CLI.                *)
(*                                                                         *)
(* Strings are sequences of one-character strings so that str.replace,     *)
(* str.rstrip and the f-string concatenations are computed, not assumed.   *)
(***************************************************************************)
EXTENDS Integers, Sequences, FiniteSets, TLC

\* Bounds of the model: length of the catalog and of a tag list.
MaxImages == 2
MaxTags == 2

\* Python's None (as a value distinct from every string, the empty one included).
None == <<"<None>">>

\* response.status_code == 200
HTTP_OK == 200

\* Names a registry may list; "a/b" and "a_b" are both valid repository names.
\* A listing is any sequence of them: the code does not look for duplicates.
ImageNames == {<<"a", "/", "b">>, <<"a", "_", "b">>}
TagNames == {<<"c">>}

SeqsUpTo(S, n) == UNION {[1..k -> S] : k \in 0..n}

\* Values os.getenv can return for the four variables main reads.
UrlValues == {None, <<>>, <<"h", "/">>}
UserValues == {None, <<>>, <<"u">>}
PasswordValues == {None, <<>>, <<"p">>}
RepoValues == {None, <<"r">>}

\* Python truthiness of an Optional[str].
Truthy(v) == v # None /\ v # <<>>

\* all([artifactory_url, username, password])
AllSet_IgnoresPassword(url, user, pw) == Truthy(url) /\ Truthy(user)

AllSet(url, user, pw) == Truthy(url) /\ Truthy(user) /\ Truthy(pw)

\* os.getenv(name, default)
GetenvDefault(v, default) == IF v = None THEN default ELSE v

\* str.rstrip('/')
RECURSIVE RStrip(_)
RStrip(s) ==
  IF Len(s) > 0 /\ s[Len(s)] = "/" THEN RStrip(SubSeq(s, 1, Len(s) - 1)) ELSE s

\* str.replace('/', '_')
Replace(s) == [k \in 1..Len(s) |-> IF s[k] = "/" THEN "_" ELSE s[k]]

\* self.test_dir / f"Dockerfile.{image_name.replace('/', '_')}_{tag}"
DockerfilePath(image_name, tag) ==
  <<"test_images", "/", "Dockerfile", ".">> \o Replace(image_name) \o <<"_">> \o tag

\* f"FROM {image_name}:{tag}\n" followed by the fixed CMD line
DockerfileContent(image_name, tag) ==
  <<"FROM", " ">> \o image_name \o <<":">> \o tag \o <<"\n", "CMD">>

\* Outcomes of requests.get: a ConnectionError, or a response with a status
\* code and a body that is invalid JSON, or a JSON object with or without the
\* listed field (an error response may carry any body as well).
Statuses == {HTTP_OK, 404}

Bodies(Names, n) ==
  {[json |-> FALSE, has |-> FALSE, value |-> <<>>],
   [json |-> TRUE, has |-> FALSE, value |-> <<>>]}
  \cup {[json |-> TRUE, has |-> TRUE, value |-> l] : l \in SeqsUpTo(Names, n)}

NoBody == [json |-> FALSE, has |-> FALSE, value |-> <<>>]

HttpOutcomes(Names, n) ==
  {[error |-> TRUE, status_code |-> 0, body |-> NoBody]}
  \cup {[error |-> FALSE, status_code |-> s, body |-> b] :
          s \in Statuses, b \in Bodies(Names, n)}

\* requests.get raises, or response.json() raises on the 200 branch.
HttpRaises(resp) ==
  resp.error \/ (resp.status_code = HTTP_OK /\ ~resp.body.json)

\* response.json().get(field, [])
JsonGet(body) == IF body.has THEN body.value ELSE <<>>

\* list_images / get_image_tags: the value returned when nothing is raised.
ListResult_IgnoresStatus(resp) == JsonGet(resp.body)

ListResult(resp) ==
  IF resp.status_code = HTTP_OK THEN JsonGet(resp.body) ELSE <<>>

\* Outcomes of subprocess.run(command, shell=True, capture_output=True,
\* text=True, check=True): the command exits with a code and some standard
\* output, or subprocess.run raises something other than CalledProcessError.
DockerOutcomes ==
  {[exc |-> FALSE, code |-> c, stdout |-> s] : c \in {0, 1}, s \in {<<>>, <<"o">>}}
  \cup {[exc |-> TRUE, code |-> 0 - 1, stdout |-> <<>>]}

NotRun == [exc |-> FALSE, code |-> 0 - 2, stdout |-> <<>>]

\* run_docker_command: result.stdout, or None on CalledProcessError.
run_docker_command_NoCheck(o) == o.stdout

run_docker_command(o) == IF o.code = 0 THEN o.stdout ELSE None

\* the loop test of "for image_name in images"
HasNextImage(idx, s) == idx <= Len(s)

\* the loop test of "for tag in tags"
HasNextTag_OffByOne(idx, s) == idx < Len(s)

HasNextTag(idx, s) == idx <= Len(s)

VARIABLES
  pc,               \* position of the single thread of control
  artifactory_url,  \* main's locals
  username,
  password,
  repo_path,
  tester,           \* the SimpleArtifactoryTester object, None before __init__
  images,           \* test_images' locals
  i,
  tags,
  j,
  dockerfile_path,
  build,            \* outcome of the docker build of the current pair
  run,              \* outcome of the docker run of the current pair
  success,
  usage,            \* the usage message has been printed
  results,          \* the "Test successful/failed for image:tag" lines printed
  files,            \* the files of test_images/: path -> content
  catalog,          \* history: status code of the catalog response, 0 before
  fetched,          \* history: one record per tags response received
  httpRequests,     \* history: number of requests.get calls
  dockerInvoked,    \* history: subprocess.run has been called
  runFailed,        \* history: some docker run has exited non-zero
  raised            \* function an uncaught exception escaped from, or "none"

vars == <<pc, artifactory_url, username, password, repo_path, tester, images, i,
          tags, j, dockerfile_path, build, run, success, usage, results, files,
          catalog, fetched, httpRequests, dockerInvoked, runFailed, raised>>

locals == <<artifactory_url, username, password, repo_path>>
loop == <<images, i, tags, j>>
pair == <<dockerfile_path, build, run, success>>
history == <<catalog, fetched, httpRequests, dockerInvoked, runFailed>>

NoFiles == [p \in {} |-> <<>>]

Init ==
  /\ pc = "main"
  /\ artifactory_url = None
  /\ username = None
  /\ password = None
  /\ repo_path = None
  /\ tester = None
  /\ images = <<>>
  /\ i = 0
  /\ tags = <<>>
  /\ j = 0
  /\ dockerfile_path = None
  /\ build = NotRun
  /\ run = NotRun
  /\ success = FALSE
  /\ usage = FALSE
  /\ results = <<>>
  /\ files = NoFiles
  /\ catalog = 0
  /\ fetched = <<>>
  /\ httpRequests = 0
  /\ dockerInvoked = FALSE
  /\ runFailed = FALSE
  /\ raised = "none"

\* main, lines 89-98: read the environment and check the credentials.
Main ==
  /\ pc = "main"
  /\ \E url \in UrlValues, user \in UserValues, pw \in PasswordValues, repo \in RepoValues :
       /\ artifactory_url' = url
       /\ username' = user
       /\ password' = pw
       /\ repo_path' = GetenvDefault(repo, <<"docker-local">>)
       /\ IF ~AllSet(url, user, pw)
            THEN usage' = TRUE /\ pc' = "done"
            ELSE usage' = usage /\ pc' = "init"
  /\ UNCHANGED <<tester, loop, pair, results, files, history, raised>>

\* main line 100 and __init__: build the tester, create test_images/.
Construct ==
  /\ pc = "init"
  /\ \E mkdir_ok \in BOOLEAN :
       IF mkdir_ok
         THEN /\ tester' = [artifactory_url |-> RStrip(artifactory_url),
                            auth |-> <<username, password>>]
              /\ pc' = "list_images"
              /\ raised' = raised
         ELSE /\ tester' = tester
              /\ pc' = "crashed"
              /\ raised' = "__init__"
  /\ UNCHANGED <<locals, loop, pair, usage, results, files, history>>

\* test_images line 80: images = self.list_images(repo_path)
ListImages ==
  /\ pc = "list_images"
  /\ httpRequests' = httpRequests + 1
  /\ \E resp \in HttpOutcomes(ImageNames, MaxImages) :
       IF HttpRaises(resp)
         THEN /\ pc' = "crashed"
              /\ raised' = "list_images"
              /\ catalog' = IF resp.error THEN catalog ELSE resp.status_code
              /\ UNCHANGED <<images, i>>
         ELSE /\ images' = ListResult(resp)
              /\ i' = 1
              /\ catalog' = resp.status_code
              /\ pc' = "for_image"
              /\ raised' = raised
  /\ UNCHANGED <<locals, tester, tags, j, pair, usage, results, files, fetched,
                 dockerInvoked, runFailed>>

\* test_images line 81: for image_name in images
ForImage ==
  /\ pc = "for_image"
  /\ pc' = IF HasNextImage(i, images) THEN "get_image_tags" ELSE "done"
  /\ UNCHANGED <<locals, tester, loop, pair, usage, results, files, history, raised>>

\* test_images line 82: tags = self.get_image_tags(repo_path, image_name)
GetImageTags ==
  /\ pc = "get_image_tags"
  /\ httpRequests' = httpRequests + 1
  /\ \E resp \in HttpOutcomes(TagNames, MaxTags) :
       IF HttpRaises(resp)
         THEN /\ pc' = "crashed"
              /\ raised' = "get_image_tags"
              /\ UNCHANGED <<tags, j, fetched>>
         ELSE /\ tags' = ListResult(resp)
              /\ j' = 1
              /\ fetched' = Append(fetched, [image |-> images[i],
                                             status_code |-> resp.status_code,
                                             tags |-> ListResult(resp)])
              /\ pc' = "for_tag"
              /\ raised' = raised
  /\ UNCHANGED <<locals, tester, images, i, pair, usage, results, files, catalog,
                 dockerInvoked, runFailed>>

\* test_images lines 83-84: for tag in tags; print "Testing image:tag"
ForTag ==
  /\ pc = "for_tag"
  /\ IF HasNextTag(j, tags)
       THEN pc' = "create_dockerfile" /\ i' = i
       ELSE pc' = "for_image" /\ i' = i + 1
  /\ UNCHANGED <<locals, tester, images, tags, j, pair, usage, results, files, history,
                 raised>>

\* test_images line 85 and create_dockerfile: open(path, 'w') and two writes,
\* outside every try block.
CreateDockerfile ==
  /\ pc = "create_dockerfile"
  /\ \E write_ok \in BOOLEAN :
       IF write_ok
         THEN /\ dockerfile_path' = DockerfilePath(images[i], tags[j])
              /\ files' = (DockerfilePath(images[i], tags[j])
                             :> DockerfileContent(images[i], tags[j])) @@ files
              /\ pc' = "build"
              /\ raised' = raised
         ELSE /\ pc' = "crashed"
              /\ raised' = "create_dockerfile"
              /\ UNCHANGED <<dockerfile_path, files>>
  /\ UNCHANGED <<locals, tester, loop, build, run, success, usage, results, history>>

\* build_and_run lines 59-64 (and the except clause, lines 74-76)
Build ==
  /\ pc = "build"
  /\ dockerInvoked' = TRUE
  /\ \E o \in DockerOutcomes :
       /\ build' = o
       /\ IF o.exc
            THEN success' = FALSE /\ pc' = "report"
            ELSE IF ~Truthy(run_docker_command(o))
                   THEN success' = FALSE /\ pc' = "report"
                   ELSE success' = success /\ pc' = "run"
  /\ UNCHANGED <<locals, tester, loop, dockerfile_path, run, usage, results, files,
                 catalog, fetched, httpRequests, runFailed, raised>>

\* build_and_run lines 66-72 (and the except clause, lines 74-76)
Run ==
  /\ pc = "run"
  /\ dockerInvoked' = TRUE
  /\ \E o \in DockerOutcomes :
       /\ run' = o
       /\ success' = IF o.exc THEN FALSE ELSE Truthy(run_docker_command(o))
       /\ runFailed' = (runFailed \/ (~o.exc /\ o.code # 0))
  /\ pc' = "report"
  /\ UNCHANGED <<locals, tester, loop, dockerfile_path, build, usage, results, files,
                 catalog, fetched, httpRequests, raised>>

\* test_images line 87: print the result of the pair, then the next tag
\* (the frame of build_and_run, and with it the two outcomes, is gone)
Report ==
  /\ pc = "report"
  /\ results' = Append(results, [image |-> images[i], tag |-> tags[j],
                                 success |-> success])
  /\ build' = NotRun
  /\ run' = NotRun
  /\ j' = j + 1
  /\ pc' = "for_tag"
  /\ UNCHANGED <<locals, tester, images, i, tags, dockerfile_path, success, usage, files,
                 history, raised>>

Next ==
  \/ Main
  \/ Construct
  \/ ListImages
  \/ ForImage
  \/ GetImageTags
  \/ ForTag
  \/ CreateDockerfile
  \/ Build
  \/ Run
  \/ Report

Spec == Init /\ [][Next]_vars

(***************************************************************************)
(* Vocabulary of the properties.                                           *)
(***************************************************************************)
Missing(v) == v = None \/ v = <<>>

Terminal == pc \in {"done", "crashed"}

PairStages == {"create_dockerfile", "build", "run", "report"}

\* The (image, tag) pairs of the tags responses received so far, in listing order.
RECURSIVE Listed(_)
Listed(f) ==
  IF f = <<>> THEN <<>>
  ELSE Listed(SubSeq(f, 1, Len(f) - 1))
         \o [k \in 1..Len(f[Len(f)].tags) |-> <<f[Len(f)].image, f[Len(f)].tags[k]>>]

ResultPairs == [k \in 1..Len(results) |-> <<results[k].image, results[k].tag>>]

\* Every image of the catalog has had its tags fetched and every listed pair
\* has its result line, in listing order.
AllTested ==
  /\ Len(fetched) = Len(images)
  /\ \A k \in 1..Len(images) : fetched[k].image = images[k]
  /\ ResultPairs = Listed(fetched)

\* C1: when one of ARTIFACTORY_URL, ARTIFACTORY_USERNAME, ARTIFACTORY_PASSWORD
\* is unset or empty, main prints the usage message and ends: no HTTP request,
\* no docker command, no file, whatever the other variables hold.
C1_MissingCredentialStops ==
  (pc # "main" /\ (Missing(artifactory_url) \/ Missing(username) \/ Missing(password)))
    => /\ pc = "done"
       /\ usage
       /\ httpRequests = 0
       /\ ~dockerInvoked
       /\ files = NoFiles
       /\ raised = "none"

C1_Witness ==
  /\ pc = "done"
  /\ usage
  /\ artifactory_url = <<"h", "/">>
  /\ username = <<"u">>
  /\ password = <<>>
  /\ repo_path = <<"r">>

\* C2: within a pair, docker run is attempted only after a docker build of the
\* same pair that exited zero, itself after the Dockerfile of the pair was
\* written; after a failing build the run of the pair is never attempted.
C2_RunOnlyAfterBuild ==
  /\ (pc = "run" \/ run # NotRun)
       => /\ ~build.exc /\ build.code = 0
          /\ pc \in {"run", "report"}
  /\ (build # NotRun /\ (build.exc \/ build.code # 0))
       => (run = NotRun /\ pc = "report" /\ ~success)
  /\ (pc \in {"build", "run"} \/ build # NotRun)
       => /\ dockerfile_path = DockerfilePath(images[i], tags[j])
          /\ dockerfile_path \in DOMAIN files
          /\ files[dockerfile_path] = DockerfileContent(images[i], tags[j])

C2_Witness ==
  /\ pc = "report"
  /\ run # NotRun
  /\ build.code = 0
  /\ Len(results) > 0
  /\ ~results[Len(results)].success

\* C3: a docker run that exits non-zero is reported as "Test failed" for its
\* pair, and when the run of the program ends every tag of every image of the
\* catalog has been tested all the same.
C3_RunFailureDoesNotAbort ==
  /\ (pc = "report" /\ ~run.exc /\ run.code > 0) => ~success
  /\ (Terminal /\ runFailed) => (pc = "done" /\ AllTested)

\* C4: a non-200 tags response gives an empty tag list, hence no Dockerfile and
\* no docker command for that image, and when the run of the program ends
\* every later image has had its tags fetched and tested all the same.
C4_TagsErrorDoesNotBlock ==
  /\ \A k \in 1..Len(fetched) :
       fetched[k].status_code # HTTP_OK => fetched[k].tags = <<>>
  /\ (pc \in PairStages) => fetched[i].status_code = HTTP_OK
  /\ (Terminal /\ \E k \in 1..Len(fetched) : fetched[k].status_code # HTTP_OK)
       => (pc = "done" /\ AllTested)

\* C5: after a non-200 catalog response list_images has returned the empty
\* list and the run ends with that one request: no tags request, no
\* Dockerfile, no docker command.
C5_CatalogErrorTestsNothing ==
  (catalog # 0 /\ catalog # HTTP_OK)
    => /\ images = <<>>
       /\ pc \in {"for_image", "done"}
       /\ httpRequests = 1
       /\ fetched = <<>>
       /\ files = NoFiles
       /\ ~dockerInvoked
       /\ results = <<>>
       /\ raised = "none"

C5_Witness == pc = "done" /\ catalog = 404 /\ httpRequests = 1 /\ ~usage

\* C6: two different tested (image, tag) pairs never have the same Dockerfile
\* path, so the file of a tested pair still holds that pair's FROM line.
C6_PathUniquePerPair ==
  \A m, n \in 1..Len(results) :
    /\ ResultPairs[m] # ResultPairs[n]
         => DockerfilePath(results[m].image, results[m].tag)
              # DockerfilePath(results[n].image, results[n].tag)
    /\ files[DockerfilePath(results[m].image, results[m].tag)]
         = DockerfileContent(results[m].image, results[m].tag)

\* C7: list_images and get_image_tags never raise, whatever the outcome of the
\* HTTP request.
C7_ListingNeverRaises == raised \notin {"list_images", "get_image_tags"}

\* C8: no failure inside the Dockerfile-generate/build/run sequence of a pair
\* (a failing Dockerfile write included) ends the run abnormally: from inside
\* the sequence of a pair the run never steps to abnormal termination.
C8_PairFailureNeverTerminates ==
  [][(pc \in PairStages) => (pc' # "crashed")]_vars

\* C9: the result of a pair is successful if and only if docker build exited
\* zero and docker run exited zero, whatever they wrote to standard output.
C9_ResultFromExitCodes ==
  (pc = "report") => (success <=> (build.code = 0 /\ run.code = 0))

\* C10: the run is strictly sequential: the pair in progress is the first
\* listed pair without a result line (every pair before it has its result and
\* no later pair has started), and a tags request is issued only when every
\* tag of every preceding image has its result line.
C10_StrictlySequential ==
  /\ ResultPairs = SubSeq(Listed(fetched), 1, Len(results))
  /\ (pc \in PairStages)
       => /\ Len(fetched) = i
          /\ Len(results) = Len(Listed(SubSeq(fetched, 1, i - 1))) + (j - 1)
          /\ Listed(fetched)[Len(results) + 1] = <<images[i], tags[j]>>
  /\ (pc = "get_image_tags")
       => /\ Len(fetched) = i - 1
          /\ ResultPairs = Listed(fetched)

C10_Witness ==
  /\ pc = "create_dockerfile"
  /\ i = 2
  /\ j = 2
  /\ Len(results) = Len(fetched[1].tags) + 1
  /\ Len(fetched[1].tags) = 2
====
